---- MODULE Spec2Model ----
(***************************************************************************)
(* A model of the ubnt client library (ubnt.c): the command executor       *)
(* ubnt_exec_command, the mca-status converter mca_to_json, the             *)
(* configuration puller ubnt_copy_config_to_buffer, the public-key login   *)
(* ubnt_connect_key, the functions that manage a device's session, and     *)
(* rstrip.  The buffer sizes of ubnt_exec_command have a specification of  *)
(* their own, and so has ubnt_dispatch, which calls the others.            *)
(* Each function has a specification of its own; the variables of the      *)
(* functions that are not running keep their idle values.                  *)
(*                                                                         *)
(* A C string is a sequence of one-character strings; the NUL terminator   *)
(* is implicit at the end of the sequence.  The transport library (libssh) *)
(* is the environment: every call into it returns one of the results its   *)
(* interface allows, chosen nondeterministically.  Heap allocations of the *)
(* result buffers (calloc, malloc) are taken to succeed.                   *)
(***************************************************************************)
EXTENDS Integers, Sequences, FiniteSets, TLC

VARIABLES
    pc,        \* position in the function being executed
    guarded,   \* which definition of the function runs (see ExecInit)
    channel,   \* ubnt_exec_command: ssh_channel channel
    opened,    \* transport side: the channel's session was opened
    rc,        \* int rc of the function being executed
    nbytes,    \* ubnt_exec_command: int nbytes
    pbytes,    \* ubnt_exec_command: int pbytes
    buffer,    \* ubnt_exec_command: char *buffer (NULL or its contents)
    result,    \* value returned by ubnt_exec_command
    calls,     \* history: transport calls made so far, with their results
    chunks,    \* history: the data delivered by each successful read
    input,     \* history: the string mca_to_json was called with
    str,       \* mca_to_json: char *str (contents, modified in place)
    length,    \* mca_to_json: int length
    i,         \* mca_to_json: int i
    j,         \* mca_to_json: int j
    out,       \* mca_to_json: char *buffer, out[k + 1] is buffer[k]
    reads,     \* history: indexes of str read by mca_to_json's main pass
    json,      \* value returned by mca_to_json
    scp,        \* ubnt_copy_config_to_buffer: ssh_scp scp
    file_size,  \* ubnt_copy_config_to_buffer: int file_size
    num_reads,  \* ubnt_copy_config_to_buffer: int num_reads
    slot,       \* ubnt_copy_config_to_buffer: int i
    tmp_buffer, \* ubnt_copy_config_to_buffer: the writes made into tmp_buffer
    asked,      \* history: the byte count each ssh_scp_read call asked for
    copied,     \* bytes of tmp_buffer copied to the caller's buffer, -1: none
    scp_ret,    \* value returned by ubnt_copy_config_to_buffer
    key_ret,    \* value returned by ubnt_connect_key
    session,    \* device->session: index into handle, 0 before ubnt_init
    handle,     \* the state of every handle ssh_new has returned
    ops,        \* history: the functions called on the device
    reported,   \* what ssh_is_connected answered last
    conn_ret,   \* value returned by ubnt_is_connected
    rs_in,      \* rstrip: the string it is given
    rs_once,    \* rstrip: the string after one call
    rs_twice,   \* rstrip: the string after a second call
    capacity,   \* ubnt_exec_command: bytes calloc gave buffer, 0 before
    hiwrite,    \* ubnt_exec_command: one past the last byte of buffer written
    cycles,     \* history: the poll/read cycles run so far
    device,     \* ubnt_dispatch: UBNTDevice *device, as the state of the struct
    output      \* ubnt_dispatch: char *output

vars == <<pc, guarded, channel, opened, rc, nbytes, pbytes, buffer, result,
          calls, chunks, input, str, length, i, j, out, reads, json,
          scp, file_size, num_reads, slot, tmp_buffer, asked, copied, scp_ret,
          key_ret, session, handle, ops, reported, conn_ret,
          rs_in, rs_once, rs_twice, capacity, hiwrite, cycles,
          device, output>>

execVars == <<guarded, channel, opened, rc, nbytes, pbytes, buffer, result,
              calls, chunks>>
mcaVars == <<input, str, length, i, j, out, reads, json>>
scpVars == <<scp, file_size, num_reads, slot, tmp_buffer, asked, copied, scp_ret>>

\* the variables of the functions modelled after ubnt_exec_command and
\* mca_to_json
keyVars == <<key_ret>>
sessVars == <<session, handle, ops, reported, conn_ret>>
rsVars == <<rs_in, rs_once, rs_twice>>
sizeVars == <<capacity, hiwrite, cycles>>
dispVars == <<device, output>>
laterVars == <<scpVars, keyVars, sessVars, rsVars, sizeVars, dispVars>>

\* the variables of ubnt_exec_command that no other function shares
execOwnVars == <<channel, opened, nbytes, pbytes, buffer, result, chunks>>

\* what ubnt_copy_config_to_buffer leaves alone
notScpVars ==
    <<guarded, execOwnVars, mcaVars, keyVars, sessVars, rsVars, sizeVars, dispVars>>

\* what ubnt_connect_key leaves alone
notKeyVars ==
    <<execOwnVars, mcaVars, scpVars, sessVars, rsVars, sizeVars, dispVars>>

\* what the functions on the device's session leave alone
notSessVars ==
    <<guarded, calls, execOwnVars, mcaVars, scpVars, keyVars, rsVars, sizeVars,
      dispVars>>

\* what rstrip leaves alone
notRsVars ==
    <<guarded, rc, calls, execOwnVars, mcaVars, scpVars, keyVars, sessVars, sizeVars,
      dispVars>>

\* what the sizes of ubnt_exec_command's buffer do not depend on
notSizeVars ==
    <<guarded, rc, calls, channel, opened, buffer, result, chunks,
      mcaVars, scpVars, keyVars, sessVars, rsVars, dispVars>>

\* what ubnt_dispatch leaves alone
notDispVars ==
    <<calls, reported, conn_ret, execOwnVars, mcaVars, scpVars, keyVars, rsVars,
      sizeVars>>

----------------------------------------------------------------------------
(* Bounds of the model *)

\* most read calls one command gets to make (the remote side then stops
\* reporting data)
MaxReads == 2
\* most bytes one poll reports as available
MaxChunk == 2

(* Program and library constants *)

SSH_OK == 0
SSH_ERROR == -1
SSH_EOF == -127

NULL == <<"NULL">>
CHAN == <<"channel">>

ScpIdle ==
    /\ scp = NULL
    /\ file_size = 0
    /\ num_reads = 0
    /\ slot = 0
    /\ tmp_buffer = <<>>
    /\ asked = <<>>
    /\ copied = -1
    /\ scp_ret = 0

KeyIdle == key_ret = 0

\* the functions modelled after ubnt_exec_command and mca_to_json are idle
SessIdle ==
    /\ session = 0
    /\ handle = <<>>
    /\ ops = <<>>
    /\ reported = FALSE
    /\ conn_ret = 0

RsIdle ==
    /\ rs_in = <<>>
    /\ rs_once = <<>>
    /\ rs_twice = <<>>

SizeIdle ==
    /\ capacity = 0
    /\ hiwrite = 0
    /\ cycles = 0

DispIdle ==
    /\ device = "none"
    /\ output = NULL

LaterIdle == ScpIdle /\ KeyIdle /\ SessIdle /\ RsIdle /\ SizeIdle /\ DispIdle

ExecOwnIdle ==
    /\ channel = NULL
    /\ opened = FALSE
    /\ nbytes = 0
    /\ pbytes = 0
    /\ buffer = NULL
    /\ result = NULL
    /\ chunks = <<>>

\* bytes the remote command may print
DataChars == {"a", " "}

\* the vertical tab, which has no escape in a TLA+ string
VT == "<VT>"

\* isspace() in the C locale
Space == {" ", "\t", "\n", "\r", "\f", VT}

isspace(c) == c \in Space

----------------------------------------------------------------------------
(* utils: rstrip *)

\* the while loop of rstrip, n is the C variable i (str[i - 1] is s[n])
RECURSIVE RStripScan(_, _)
RStripScan(s, n) ==
    IF n > 0 /\ isspace(s[n]) THEN RStripScan(s, n - 1) ELSE n

\* rstrip reads str[-1] when every character of a non-empty str is a space
RStripUnderruns(s) == Len(s) > 0 /\ RStripScan(s, Len(s)) = 0

\* the strings rstrip(s) can leave: defined behaviour cuts s at the index the
\* scan stops at; on an underrun the scan either stops at index 0 (empty
\* string) or runs on below the buffer and leaves the string as it was
RStrip(s) ==
    IF s = NULL THEN {NULL}
    ELSE IF RStripUnderruns(s) THEN {<<>>, s}
    ELSE {SubSeq(s, 1, RStripScan(s, Len(s)))}

----------------------------------------------------------------------------
(* ubnt_exec_command *)

Call(f, r) == [f |-> f, r |-> r]

Called(f) == \E k \in 1..Len(calls) : calls[k].f = f

\* results of the calls to f, in order
ResultsOf(f) ==
    LET Pick(c) == c.f = f
        sel == SelectSeq(calls, Pick)
    IN [k \in 1..Len(sel) |-> sel[k].r]

\* all strings over S of length lo..hi
Strings(S, lo, hi) == UNION {[1..n -> S] : n \in lo..hi}

\* ssh_channel_read_timeout(channel, buffer, count, ...): the bytes land at
\* the start of buffer; what lay beyond them stays
ReadInto(buf, chunk) ==
    IF Len(chunk) >= Len(buf) THEN chunk
    ELSE chunk \o SubSeq(buf, Len(chunk) + 1, Len(buf))

\* where control goes after ssh_channel_new
AfterNew(g, ch) ==
    IF g /\ ch = NULL THEN "exec_return" ELSE "exec_open"

\* where control goes after ssh_channel_open_session
AfterOpen(g, r) ==
    IF g /\ r # SSH_OK THEN "exec_send_eof" ELSE "exec_request"

\* where control goes after ssh_channel_request_exec
AfterRequest(g, r) ==
    IF g /\ r # SSH_OK THEN "exec_send_eof" ELSE "exec_alloc"

\* the loop condition: ssh_channel_is_open(channel) && !ssh_channel_is_eof(channel)
AfterCheck(isopen, iseof) ==
    IF isopen /\ ~iseof THEN "exec_poll" ELSE "exec_rstrip"

\* if (pbytes > 0) read else return buffer: leaves without the cleanup
AfterPoll_returns(p) ==
    IF p > 0 THEN "exec_read" ELSE "exec_return"

\* if (pbytes >= 0) read else break: reads on a poll that reported nothing
AfterPoll_readsOnZero(p) ==
    IF p >= 0 THEN "exec_read" ELSE "exec_rstrip"

\* if (pbytes > 0) read, with the break missing: polls again
AfterPoll_noBreak(p) ==
    IF p > 0 THEN "exec_read" ELSE "exec_check"

\* if (pbytes > 0) read else break
AfterPoll(p) ==
    IF p > 0 THEN "exec_read" ELSE "exec_rstrip"

\* The repository holds two definitions of ubnt_exec_command.  The one of
\* ubnt.c (guarded = FALSE) makes every call unconditionally; the one in the
\* header that defines the functions inline (guarded = TRUE) tests the
\* channel and each rc before going on.
ExecInit ==
    /\ pc = "exec_new"
    /\ guarded \in BOOLEAN
    /\ channel = NULL
    /\ opened = FALSE
    /\ rc = 0
    /\ nbytes = 0
    /\ pbytes = 0
    /\ buffer = NULL
    /\ result = NULL
    /\ calls = <<>>
    /\ chunks = <<>>

\* ssh_channel channel = ssh_channel_new(device->session);
ExecChannelNew ==
    /\ pc = "exec_new"
    /\ \E ch \in {CHAN, NULL} :
        /\ channel' = ch
        /\ calls' = Append(calls, Call("new", IF ch = NULL THEN SSH_ERROR ELSE SSH_OK))
        /\ pc' = AfterNew(guarded, ch)
    /\ UNCHANGED <<guarded, opened, rc, nbytes, pbytes, buffer, result, chunks>>
    /\ UNCHANGED <<mcaVars, laterVars>>

\* rc = ssh_channel_open_session(channel);
ExecOpenSession ==
    /\ pc = "exec_open"
    /\ \E r \in {SSH_OK, SSH_ERROR} :
        /\ channel = NULL => r = SSH_ERROR
        /\ rc' = r
        /\ opened' = (r = SSH_OK)
        /\ calls' = Append(calls, Call("open_session", r))
        /\ pc' = AfterOpen(guarded, r)
    /\ UNCHANGED <<guarded, channel, nbytes, pbytes, buffer, result, chunks>>
    /\ UNCHANGED <<mcaVars, laterVars>>

\* rc = ssh_channel_request_exec(channel, command);
ExecRequestExec ==
    /\ pc = "exec_request"
    /\ \E r \in {SSH_OK, SSH_ERROR} :
        /\ ~opened => r = SSH_ERROR
        /\ rc' = r
        /\ calls' = Append(calls, Call("request_exec", r))
        /\ pc' = AfterRequest(guarded, r)
    /\ UNCHANGED <<guarded, channel, opened, nbytes, pbytes, buffer, result, chunks>>
    /\ UNCHANGED <<mcaVars, laterVars>>

\* buffer = calloc(buffer_size, '0'): zero-filled, so the empty string
ExecAlloc ==
    /\ pc = "exec_alloc"
    /\ buffer' = <<>>
    /\ pc' = "exec_check"
    /\ UNCHANGED <<guarded, channel, opened, rc, nbytes, pbytes, result, calls, chunks>>
    /\ UNCHANGED <<mcaVars, laterVars>>

\* while (ssh_channel_is_open(channel) && !ssh_channel_is_eof(channel))
\* a channel that is NULL or was never opened is not open; an opened one
\* is open until the remote side closes it
ExecCheck ==
    /\ pc = "exec_check"
    /\ \E isopen \in BOOLEAN, iseof \in BOOLEAN :
        /\ isopen => channel # NULL /\ opened
        /\ calls' = IF isopen
                    THEN calls \o <<Call("is_open", 1), Call("is_eof", IF iseof THEN 1 ELSE 0)>>
                    ELSE Append(calls, Call("is_open", 0))
        /\ ~isopen => ~iseof
        /\ pc' = AfterCheck(isopen, iseof)
    /\ UNCHANGED <<guarded, channel, opened, rc, nbytes, pbytes, buffer, result, chunks>>
    /\ UNCHANGED <<mcaVars, laterVars>>

\* pbytes = ssh_channel_poll_timeout(channel, TIMEOUT, 0);
ExecPoll ==
    /\ pc = "exec_poll"
    /\ \E p \in {SSH_EOF, SSH_ERROR, 0} \cup 1..MaxChunk :
        /\ p > 0 => Len(ResultsOf("read")) < MaxReads
        /\ pbytes' = p
        /\ calls' = Append(calls, Call("poll", p))
        /\ pc' = AfterPoll(p)
    /\ UNCHANGED <<guarded, channel, opened, rc, nbytes, buffer, result, chunks>>
    /\ UNCHANGED <<mcaVars, laterVars>>

\* nbytes += ssh_channel_read_timeout(channel, buffer, pbytes, 0, TIMEOUT);
ExecRead ==
    /\ pc = "exec_read"
    /\ \/ \E chunk \in Strings(DataChars, pbytes, pbytes) :
            /\ buffer' = ReadInto(buffer, chunk)
            /\ nbytes' = nbytes + Len(chunk)
            /\ chunks' = Append(chunks, chunk)
            /\ calls' = Append(calls, Call("read", Len(chunk)))
       \/ /\ nbytes' = nbytes + SSH_ERROR
          /\ calls' = Append(calls, Call("read", SSH_ERROR))
          /\ UNCHANGED <<buffer, chunks>>
    /\ pc' = "exec_check"
    /\ UNCHANGED <<guarded, channel, opened, rc, pbytes, result>>
    /\ UNCHANGED <<mcaVars, laterVars>>

\* rstrip(buffer);
ExecRstrip ==
    /\ pc = "exec_rstrip"
    /\ buffer' \in RStrip(buffer)
    /\ pc' = "exec_send_eof"
    /\ UNCHANGED <<guarded, channel, opened, rc, nbytes, pbytes, result, calls, chunks>>
    /\ UNCHANGED <<mcaVars, laterVars>>

\* ssh_channel_send_eof(channel);
ExecSendEof ==
    /\ pc = "exec_send_eof"
    /\ calls' = Append(calls, Call("send_eof", IF channel = NULL THEN SSH_ERROR ELSE SSH_OK))
    /\ pc' = "exec_close"
    /\ UNCHANGED <<guarded, channel, opened, rc, nbytes, pbytes, buffer, result, chunks>>
    /\ UNCHANGED <<mcaVars, laterVars>>

\* ssh_channel_close(channel);
ExecClose ==
    /\ pc = "exec_close"
    /\ calls' = Append(calls, Call("close", IF channel = NULL THEN SSH_ERROR ELSE SSH_OK))
    /\ opened' = FALSE
    /\ pc' = "exec_free"
    /\ UNCHANGED <<guarded, channel, rc, nbytes, pbytes, buffer, result, chunks>>
    /\ UNCHANGED <<mcaVars, laterVars>>

\* ssh_channel_free(channel);
ExecFree ==
    /\ pc = "exec_free"
    /\ calls' = Append(calls, Call("free", SSH_OK))
    /\ pc' = "exec_return"
    /\ UNCHANGED <<guarded, channel, opened, rc, nbytes, pbytes, buffer, result, chunks>>
    /\ UNCHANGED <<mcaVars, laterVars>>

\* return buffer;
ExecReturn ==
    /\ pc = "exec_return"
    /\ result' = buffer
    /\ pc' = "exec_done"
    /\ UNCHANGED <<guarded, channel, opened, rc, nbytes, pbytes, buffer, calls, chunks>>
    /\ UNCHANGED <<mcaVars, laterVars>>

McaIdle ==
    /\ input = <<>>
    /\ str = <<>>
    /\ length = 0
    /\ i = 0
    /\ j = 0
    /\ out = <<>>
    /\ reads = {}
    /\ json = NULL

InitExec == ExecInit /\ McaIdle /\ LaterIdle

NextExec ==
    \/ ExecChannelNew
    \/ ExecOpenSession
    \/ ExecRequestExec
    \/ ExecAlloc
    \/ ExecCheck
    \/ ExecPoll
    \/ ExecRead
    \/ ExecRstrip
    \/ ExecSendEof
    \/ ExecClose
    \/ ExecFree
    \/ ExecReturn

SpecExec == InitExec /\ [][NextExec]_vars

\* every transport call returns, and the function runs on until it returns
LiveSpecExec == SpecExec /\ WF_vars(NextExec)

----------------------------------------------------------------------------
(* Properties of ubnt_exec_command *)

ExecDone == pc = "exec_done"

ReleaseCalls == {"send_eof", "close", "free"}
DrainCalls == {"poll", "read"}
SetupCalls == {"new", "open_session", "request_exec"}

\* channel creation, open-session or exec-request failed
SetupFailed ==
    \E k \in 1..Len(calls) : calls[k].f \in SetupCalls /\ calls[k].r # SSH_OK

\* channel creation, open-session and exec-request were all made and succeeded
SetupSucceeded ==
    \A f \in SetupCalls :
        \E k \in 1..Len(calls) : calls[k].f = f /\ calls[k].r = SSH_OK

\* c1 c2 ... cn
RECURSIVE Concat(_)
Concat(cs) == IF cs = <<>> THEN <<>> ELSE Head(cs) \o Concat(Tail(cs))

\* the last poll made returned zero or a negative number
LastPollNonPositive ==
    LET polls == ResultsOf("poll")
    IN Len(polls) > 0 /\ polls[Len(polls)] <= 0

\* the last evaluation of the loop condition found the channel closed or at EOF
LastCheckStops ==
    LET n == Len(calls)
    IN n > 0 /\ \/ calls[n].f = "is_open" /\ calls[n].r = 0
                \/ calls[n].f = "is_eof" /\ calls[n].r = 1

\* C1: whenever ubnt_exec_command returns having created a channel, the
\* transport calls it made end with send-EOF, close, free, in that order, and
\* none of the three was made before: each release step runs exactly once,
\* after the last poll/read and before the return, however draining ended.
C1_ReleaseOnceInOrder ==
    (ExecDone /\ channel # NULL) =>
        LET n == Len(calls)
        IN /\ n >= 3
           /\ calls[n - 2].f = "send_eof"
           /\ calls[n - 1].f = "close"
           /\ calls[n].f = "free"
           /\ \A k \in 1..(n - 3) : calls[k].f \notin ReleaseCalls

\* a run that drained data, stopped on a non-positive poll and released
C1_Witness ==
    /\ ExecDone
    /\ channel # NULL
    /\ Called("read")
    /\ LastPollNonPositive
    /\ Called("free")

\* C2: when ubnt_exec_command of ubnt.c returns after channel creation, the
\* open-session step or the exec-request step failed, it returns NULL and has
\* issued no poll and no read.
C2_FailedSetupReturnsNull ==
    (ExecDone /\ ~guarded /\ SetupFailed) =>
        /\ result = NULL
        /\ \A k \in 1..Len(calls) : calls[k].f \notin DrainCalls

\* C3: when, after a successful setup, the read loop ends after n >= 1 reads
\* that all succeeded, the
\* buffer holds, before trimming, the concatenation of the chunks read.
C3_BufferIsConcatenation ==
    ( /\ pc = "exec_rstrip"
      /\ SetupSucceeded
      /\ Len(chunks) >= 1
      /\ \A k \in 1..Len(calls) : calls[k].f = "read" => calls[k].r > 0 ) =>
        buffer = Concat(chunks)

\* C4: when channel creation, open-session and exec-request all succeeded and
\* either the first poll returned <= 0 or the channel was closed or at EOF
\* before any poll, ubnt_exec_command has made no read and returns a non-null
\* buffer holding the empty string.
C4_NoDataGivesEmptyBuffer ==
    ( /\ ExecDone
      /\ SetupSucceeded
      /\ LET polls == ResultsOf("poll")
         IN Len(polls) = 0 \/ polls[1] <= 0 ) =>
        /\ ~Called("read")
        /\ result # NULL
        /\ result = <<>>

\* all three steps succeeded and the first poll timed out
C4_Witness ==
    /\ ExecDone
    /\ SetupSucceeded
    /\ ResultsOf("poll") = <<0>>
    /\ result = <<>>

\* C5: once a poll has returned zero or a negative number, no further
\* transport call of the read loop (poll, read, is-open, is-eof) is made and
\* control goes from that poll straight to trimming; and once the channel is
\* seen closed or at EOF or a poll returns a non-positive number, the
\* function eventually returns.
C5_StopsAtNonPositivePoll ==
    /\ [][ /\ (pc = "exec_poll" /\ pbytes' <= 0) => pc' = "exec_rstrip"
           /\ LastPollNonPositive =>
                \A k \in (Len(calls) + 1)..Len(calls') :
                    calls'[k].f \notin DrainCalls \cup {"is_open", "is_eof"} ]_vars
    /\ (LastPollNonPositive \/ LastCheckStops) ~> ExecDone

\* a run that read data, then met a non-positive poll, and returned
C5_Witness ==
    /\ ExecDone
    /\ LastPollNonPositive
    /\ Len(chunks) >= 1

----------------------------------------------------------------------------
(* mca_to_json *)

\* longest input drawn from every string over McaChars
MaxLen == 4
\* length of the longest input, made of '=' only
LongLen == 682

mca_parsed_size == 2048

CR == "\r"
LF == "\n"
QUOTE == "\""
\* the string terminator '\0'
NUL == "<NUL>"
\* a byte of a malloc'ed buffer that was never written
UNINIT == "<uninitialized>"
\* a byte found outside the string that is not '\n'
STRAY == "<stray>"

\* characters the bounded inputs are made of
McaChars == {"k", "=", ",", " ", CR, LF}

\* the input of the specification's round-trip example
ExampleRoundTrip ==
    <<"k", "e", "y", "1", "=", "v", "a", "l", "1", LF,
      "k", "e", "y", "2", "=", "v", "a", "l", "2", CR, LF>>

\* the input of the specification's comma-space example
ExampleCommaSpace ==
    <<"a", "=", "1", ",", " ", "2", LF, "b", "=", "3", LF>>

\* the output of mca-status as ubnt_mca_status passes it on: CRLF between
\* the lines, an empty line after the first, trailing whitespace trimmed
ExampleStatus ==
    <<"d", "=", "x", ",", "i", "=", "y", CR, LF, CR, LF, "u", "=", "1", CR, LF, "s", "=", "2">>

McaInputs ==
    Strings(McaChars, 0, MaxLen)
        \cup {ExampleRoundTrip, ExampleCommaSpace, ExampleStatus}
        \cup {[k \in 1..n |-> "="] : n \in {LongLen - 2, LongLen}}

\* index (from 1) of the first occurrence of ", " in s, 0 when there is none:
\* strstr(str, ", ")
StrStrCommaSpace(s) ==
    LET found == {k \in 1..(Len(s) - 1) : s[k] = "," /\ s[k + 1] = " "}
    IN IF found = {} THEN 0
       ELSE CHOOSE k \in found : \A n \in found : k <= n

\* every occurrence of ", " overwritten, not only the first
RECURSIVE PrePass_all(_)
PrePass_all(s) ==
    LET p == StrStrCommaSpace(s)
    IN IF p = 0 THEN s
       ELSE PrePass_all([s EXCEPT ![p] = "-", ![p + 1] = "-"])

\* sub = strstr(str, ", "); if (sub != NULL) strncpy(sub, "--", 2);
PrePass(s) ==
    LET p == StrStrCommaSpace(s)
    IN IF p = 0 THEN s ELSE [s EXCEPT ![p] = "-", ![p + 1] = "-"]

\* buffer[k] = c, on a buffer whose bytes 0..Len(buf)-1 have been written
Write(buf, k, c) ==
    IF k < Len(buf) THEN [buf EXCEPT ![k + 1] = c]
    ELSE buf \o [n \in 1..(k - Len(buf)) |-> UNINIT] \o <<c>>

\* what str[ii - 1] can yield: the character before index ii, or, at index 0,
\* whatever byte lies before the string
PrevBytes(s, ii) == IF ii > 0 THEN {s[ii]} ELSE {LF, STRAY}

\* the '\r' case with the i++ left out: only the '\r' itself is consumed
SwitchCase_noSkip(c, prev, buf, ii, jj) ==
    CASE c = "=" ->
            [buf |-> Write(Write(Write(buf, jj, QUOTE), jj + 1, ":"), jj + 2, QUOTE),
             i |-> ii, j |-> jj + 2]
      [] c = "," ->
            [buf |-> Write(Write(Write(buf, jj, QUOTE), jj + 1, ","), jj + 2, QUOTE),
             i |-> ii, j |-> jj + 2]
      [] c = CR ->
            IF prev = LF
            THEN [buf |-> buf, i |-> ii, j |-> jj - 1]
            ELSE [buf |-> Write(buf, jj, QUOTE), i |-> ii, j |-> jj]
      [] c = LF ->
            [buf |-> Write(Write(buf, jj, ","), jj + 1, QUOTE), i |-> ii, j |-> jj + 1]
      [] OTHER ->
            [buf |-> Write(buf, jj, c), i |-> ii, j |-> jj]

\* switch (str[i]) { ... }: buffer, i and j as the switch leaves them, with
\* c = str[i] and prev = str[i - 1]
SwitchCase(c, prev, buf, ii, jj) ==
    CASE c = "=" ->
            [buf |-> Write(Write(Write(buf, jj, QUOTE), jj + 1, ":"), jj + 2, QUOTE),
             i |-> ii, j |-> jj + 2]
      [] c = "," ->
            [buf |-> Write(Write(Write(buf, jj, QUOTE), jj + 1, ","), jj + 2, QUOTE),
             i |-> ii, j |-> jj + 2]
      [] c = CR ->
            IF prev = LF
            THEN [buf |-> buf, i |-> ii + 1, j |-> jj - 1]
            ELSE [buf |-> Write(buf, jj, QUOTE), i |-> ii, j |-> jj]
      [] c = LF ->
            [buf |-> Write(Write(buf, jj, ","), jj + 1, QUOTE), i |-> ii, j |-> jj + 1]
      [] OTHER ->
            [buf |-> Write(buf, jj, c), i |-> ii, j |-> jj]

\* the C string held by buf: its bytes before the first '\0'
CString(buf) ==
    LET nuls == {k \in 1..Len(buf) : buf[k] = NUL}
    IN IF nuls = {} THEN buf
       ELSE SubSeq(buf, 1, (CHOOSE k \in nuls : \A n \in nuls : k <= n) - 1)

\* the highest index of buffer written so far
HighestWrite == Len(out) - 1

ExecIdle ==
    /\ guarded = FALSE
    /\ channel = NULL
    /\ opened = FALSE
    /\ rc = 0
    /\ nbytes = 0
    /\ pbytes = 0
    /\ buffer = NULL
    /\ result = NULL
    /\ calls = <<>>
    /\ chunks = <<>>

McaInit ==
    /\ pc = "mca_start"
    /\ input \in McaInputs
    /\ str = input
    /\ length = 0
    /\ i = 0
    /\ j = 0
    /\ out = <<>>
    /\ reads = {}
    /\ json = NULL

\* length = strlen(str); buffer = malloc(mca_parsed_size); the pre-pass;
\* buffer[0] = '['; buffer[1] = '{'; buffer[2] = '"'; i = 0, j = 3
McaPrologue ==
    /\ pc = "mca_start"
    /\ length' = Len(str)
    /\ str' = PrePass(str)
    /\ out' = Write(Write(Write(<<>>, 0, "["), 1, "{"), 2, QUOTE)
    /\ i' = 0
    /\ j' = 3
    /\ pc' = "mca_loop"
    /\ UNCHANGED <<input, reads, json>>
    /\ UNCHANGED <<execVars, laterVars>>

\* one iteration of the for loop: the switch, then j++, then i++
McaStep ==
    /\ pc = "mca_loop"
    /\ i < length
    /\ LET c == str[i + 1]
       IN \E prev \in (IF c = CR THEN PrevBytes(str, i) ELSE {STRAY}) :
            LET r == SwitchCase(c, prev, out, i, j)
            IN /\ out' = r.buf
               /\ j' = r.j + 1
               /\ i' = r.i + 1
               /\ reads' = reads \cup {i} \cup (IF c = CR THEN {i - 1} ELSE {})
    /\ UNCHANGED <<pc, input, str, length, json>>
    /\ UNCHANGED <<execVars, laterVars>>

\* buffer[j] = '"'; buffer[++j] = '}'; buffer[++j] = ']'; buffer[++j] = '\0';
\* return buffer;
McaEpilogue ==
    /\ pc = "mca_loop"
    /\ i >= length
    /\ out' = Write(Write(Write(Write(out, j, QUOTE), j + 1, "}"), j + 2, "]"), j + 3, NUL)
    /\ j' = j + 3
    /\ json' = CString(out')
    /\ pc' = "mca_done"
    /\ UNCHANGED <<input, str, length, i, reads>>
    /\ UNCHANGED <<execVars, laterVars>>

\* a write past the end of the malloc'ed block may also end the process
McaFault ==
    /\ pc = "mca_loop"
    /\ HighestWrite >= mca_parsed_size
    /\ pc' = "mca_fault"
    /\ UNCHANGED <<mcaVars, execVars, laterVars>>

InitMca == McaInit /\ ExecIdle /\ LaterIdle

NextMca ==
    \/ McaPrologue
    \/ McaStep
    \/ McaEpilogue
    \/ McaFault

SpecMca == InitMca /\ [][NextMca]_vars

----------------------------------------------------------------------------
(* Properties of mca_to_json *)

McaDone == pc = "mca_done"

\* the least element of a non-empty set of numbers
Least(S) == CHOOSE k \in S : \A n \in S : k <= n

\* s without a final CR
DropCR(s) ==
    IF Len(s) > 0 /\ s[Len(s)] = CR THEN SubSeq(s, 1, Len(s) - 1) ELSE s

\* the lines of s: each ends at an LF or a CRLF, the last one may end with
\* the string
RECURSIVE LinesOf(_)
LinesOf(s) ==
    LET lfs == {k \in 1..Len(s) : s[k] = LF}
    IN IF s = <<>> THEN <<>>
       ELSE IF lfs = {} THEN <<s>>
       ELSE <<DropCR(SubSeq(s, 1, Least(lfs) - 1))>>
                \o LinesOf(SubSeq(s, Least(lfs) + 1, Len(s)))

\* line is key=value, with no '=', ',', CR or LF inside the key or the value,
\* and the key not empty
IsKeyValue(line) ==
    /\ Cardinality({k \in 1..Len(line) : line[k] = "="}) = 1
    /\ Len(line) > 0 /\ line[1] # "="
    /\ \A k \in 1..Len(line) : line[k] \notin {",", CR, LF}

\* s is n >= 1 lines key=value
IsKeyValueLines(s) ==
    /\ LinesOf(s) # <<>>
    /\ \A n \in 1..Len(LinesOf(s)) : IsKeyValue(LinesOf(s)[n])

\* "key":"value"
QuotedField(line) ==
    LET p == Least({k \in 1..Len(line) : line[k] = "="})
    IN <<QUOTE>> \o SubSeq(line, 1, p - 1) \o <<QUOTE, ":", QUOTE>>
           \o SubSeq(line, p + 1, Len(line)) \o <<QUOTE>>

\* "k1":"v1","k2":"v2",...,"kn":"vn"
RECURSIVE QuotedFields(_)
QuotedFields(ls) ==
    IF Len(ls) = 1 THEN QuotedField(ls[1])
    ELSE QuotedField(ls[1]) \o <<",">> \o QuotedFields(Tail(ls))

\* [{"k1":"v1",...,"kn":"vn"}]
Document(s) == <<"[", "{">> \o QuotedFields(LinesOf(s)) \o <<"}", "]">>

\* C6: for an input of n >= 1 lines key=value (LF or CRLF ended, the last
\* terminator optional), mca_to_json returns exactly the document
\* [{"k1":"v1",...,"kn":"vn"}], every key and value in its own quotes and no
\* empty field at the end.
C6_ExactDocument ==
    (McaDone /\ IsKeyValueLines(input)) => json = Document(input)

\* the places where ", " occurs in the input
CommaSpaces == {k \in 1..(Len(input) - 1) : input[k] = "," /\ input[k + 1] = " "}

\* C7: after the pre-pass the string has the length of the input and differs
\* from it in the two characters of the first ", " only, which have become
\* "--" (a later ", " is left as it is); and for the input "a=1, 2\nb=3\n"
\* the document starts [{"a":"1--2, the value of a in one piece.
C7_PrePassFirstOnly ==
    /\ pc # "mca_start" =>
        /\ Len(str) = Len(input)
        /\ LET first == IF CommaSpaces = {} THEN 0 ELSE Least(CommaSpaces)
           IN \A k \in 1..Len(input) :
                 str[k] = IF first > 0 /\ k \in {first, first + 1}
                          THEN "-"
                          ELSE input[k]
    /\ (McaDone /\ input = ExampleCommaSpace) =>
          SubSeq(json, 1, 11) = <<"[", "{", QUOTE, "a", QUOTE, ":", QUOTE, "1", "-", "-", "2">>

\* an input with two ", ": the first is overwritten, the second is not
C7_Witness ==
    /\ McaDone
    /\ input = <<",", " ", ",", " ">>
    /\ str = <<"-", "-", ",", " ">>

\* the loop of mca_to_json is about to take the '\r' case at an index >= 1
AtCR == pc = "mca_loop" /\ i >= 1 /\ i < length /\ str[i + 1] = CR

\* C8 as stated: a CR after a character other than LF emits one double quote;
\* a CR after an LF emits nothing, leaves the output as it is and consumes
\* that one CR only, so that the next iteration handles the character after
\* it.
C8_CrConsumesOnlyItself ==
    [][ (AtCR /\ i' # i) =>
            IF str[i] # LF
            THEN out' = Append(out, QUOTE) /\ i' = i + 1
            ELSE out' = out /\ j' = j /\ i' = i + 1 ]_vars

\* C8 amended: a CR after a character other than LF emits one double quote
\* and consumes itself; a CR after an LF emits nothing, leaves the output as
\* it is, and consumes itself and the character after it, which is never
\* handled by its own case.
C8_CrAfterLfSkipsNext ==
    [][ (AtCR /\ i' # i) =>
            IF str[i] # LF
            THEN out' = Append(out, QUOTE) /\ j' = j + 1 /\ i' = i + 1
            ELSE out' = out /\ j' = j /\ i' = i + 2 ]_vars

\* LF CR k: the CR is suppressed and the k after it is skipped with it
C8_Witness ==
    /\ input = <<LF, CR, "k">>
    /\ pc = "mca_loop"
    /\ i = 3
    /\ out = <<"[", "{", QUOTE, ",", QUOTE>>

\* C9: the main pass reads the input at indexes 0..length-1 only, and a CR
\* at index 0 is handled as not preceded by LF: it emits the closing quote.
C9_ReadsInsideInput ==
    /\ \A k \in reads : 0 <= k /\ k <= length - 1
    /\ (pc = "mca_loop" /\ 0 \in reads /\ input[1] = CR) =>
          (Len(out) >= 4 /\ out[4] = QUOTE)

\* C10: every index of the output buffer written is below the size of the
\* allocation.
C10_WritesInsideBuffer ==
    HighestWrite < mca_parsed_size

-----------------------------------------------------------------------------
(* ubnt_copy_config_to_buffer *)

MaxBlocks == 2

CONNECTION_OK == 0
SCP_READ_SIZE == 2048

\* enum ssh_scp_request_types of libssh: NEWDIR = 1, NEWFILE, EOF, ENDDIR,
\* WARNING
SSH_SCP_REQUEST_NEWFILE == 2
SSH_SCP_REQUEST_EOF == 3
ScpRequestTypes == 1..5

SCP == <<"scp">>

\* the sizes ssh_scp_request_get_size may advertise: around each multiple
\* of SCP_READ_SIZE
FileSizes ==
    {b * SCP_READ_SIZE + r : b \in 0..MaxBlocks, r \in {0, 1, SCP_READ_SIZE - 1}}

\* what the first ssh_scp_pull_request may answer
PullResults == ScpRequestTypes \cup {SSH_ERROR}

\* what ssh_scp_pull_request may answer inside the loop: the end of the
\* transfer, or anything else
LoopPullResults == {SSH_SCP_REQUEST_EOF, SSH_ERROR}

\* ssh_scp_read(scp, buf, size) with rem bytes of the file left on the wire:
\* it fails, or it delivers between 1 and min(size, rem) bytes; with nothing
\* left it delivers nothing
ReadResults(size, rem) ==
    LET most == IF size < rem THEN size ELSE rem
    IN {SSH_ERROR}
       \cup (IF most = 0 THEN {0} ELSE {})
       \cup {d \in {1, SCP_READ_SIZE, most} : 1 <= d /\ d <= most}

RECURSIVE SumLen(_)
SumLen(ws) ==
    IF ws = <<>> THEN 0 ELSE ws[1].len + SumLen(Tail(ws))

\* bytes the reads have delivered so far
TotalDelivered == SumLen(tmp_buffer)

\* one past the last byte of tmp_buffer written so far
HighestScpWrite ==
    IF tmp_buffer = <<>> THEN 0
    ELSE LET ends == {tmp_buffer[n].at + tmp_buffer[n].len : n \in 1..Len(tmp_buffer)}
         IN CHOOSE e \in ends : \A o \in ends : o <= e

\* where control goes after ssh_scp_init
AfterScpInit_returns(r) ==
    IF r = CONNECTION_OK THEN "scp_pull" ELSE "scp_return"

AfterScpInit(r) ==
    IF r = CONNECTION_OK THEN "scp_pull" ELSE "scp_close"

\* where control goes after the first ssh_scp_pull_request
AfterScpPull(r) ==
    IF r = SSH_SCP_REQUEST_NEWFILE THEN "scp_size" ELSE "scp_close"

\* the condition of the do-while
AfterScpLoop(r, ii, n) ==
    IF r # SSH_SCP_REQUEST_EOF /\ ii < n THEN "scp_read" ELSE "scp_memcpy"

ScpInit ==
    /\ pc = "scp_new"
    /\ ScpIdle

\* scp = ssh_scp_new(device->session, SSH_SCP_READ, CONFIG);
ScpNew ==
    /\ pc = "scp_new"
    /\ scp' \in {SCP, NULL}
    /\ calls' = Append(calls, Call("ssh_scp_new", 0))
    /\ pc' = "scp_init"
    /\ UNCHANGED <<rc, file_size, num_reads, slot, tmp_buffer, asked, copied, scp_ret>>
    /\ UNCHANGED notScpVars

\* rc = ssh_scp_init(scp); if (rc == CONNECTION_OK)
ScpInitCall ==
    /\ pc = "scp_init"
    /\ rc' \in (IF scp = NULL THEN {SSH_ERROR} ELSE {SSH_OK, SSH_ERROR})
    /\ calls' = Append(calls, Call("ssh_scp_init", rc'))
    /\ pc' = AfterScpInit(rc')
    /\ UNCHANGED <<scp, file_size, num_reads, slot, tmp_buffer, asked, copied, scp_ret>>
    /\ UNCHANGED notScpVars

\* rc = ssh_scp_pull_request(scp); if (rc == SSH_SCP_REQUEST_NEWFILE)
ScpPull ==
    /\ pc = "scp_pull"
    /\ rc' \in PullResults
    /\ calls' = Append(calls, Call("ssh_scp_pull_request", rc'))
    /\ pc' = AfterScpPull(rc')
    /\ UNCHANGED <<scp, file_size, num_reads, slot, tmp_buffer, asked, copied, scp_ret>>
    /\ UNCHANGED notScpVars

\* int i = 0; file_size = ssh_scp_request_get_size(scp);
\* num_reads = (file_size / SCP_READ_SIZE) + 1;
\* char tmp_buffer[num_reads][SCP_READ_SIZE]; rc = 0;
ScpSize ==
    /\ pc = "scp_size"
    /\ file_size' \in FileSizes
    /\ num_reads' = (file_size' \div SCP_READ_SIZE) + 1
    /\ slot' = 0
    /\ tmp_buffer' = <<>>
    /\ rc' = 0
    /\ calls' = Append(calls, Call("ssh_scp_request_get_size", file_size'))
    /\ pc' = "scp_accept"
    /\ UNCHANGED <<scp, asked, copied, scp_ret>>
    /\ UNCHANGED notScpVars

\* ssh_scp_accept_request(scp);
ScpAccept ==
    /\ pc = "scp_accept"
    /\ \E r \in {SSH_OK, SSH_ERROR} :
         calls' = Append(calls, Call("ssh_scp_accept_request", r))
    /\ pc' = "scp_read"
    /\ UNCHANGED <<rc, scp, file_size, num_reads, slot, tmp_buffer, asked, copied, scp_ret>>
    /\ UNCHANGED notScpVars

\* rc += ssh_scp_read(scp, tmp_buffer[i], file_size); i++;
ScpRead ==
    /\ pc = "scp_read"
    /\ \E r \in ReadResults(file_size, file_size - TotalDelivered) :
         /\ rc' = rc + r
         /\ tmp_buffer' =
              IF r > 0
              THEN Append(tmp_buffer, [at |-> slot * SCP_READ_SIZE, len |-> r])
              ELSE tmp_buffer
         /\ calls' = Append(calls, Call("ssh_scp_read", r))
    /\ asked' = Append(asked, file_size)
    /\ slot' = slot + 1
    /\ pc' = "scp_loop"
    /\ UNCHANGED <<scp, file_size, num_reads, copied, scp_ret>>
    /\ UNCHANGED notScpVars

\* while (ssh_scp_pull_request(scp) != SSH_SCP_REQUEST_EOF && i < num_reads);
ScpLoop ==
    /\ pc = "scp_loop"
    /\ \E r \in LoopPullResults :
         /\ calls' = Append(calls, Call("ssh_scp_pull_request", r))
         /\ pc' = AfterScpLoop(r, slot, num_reads)
    /\ UNCHANGED <<rc, scp, file_size, num_reads, slot, tmp_buffer, asked, copied, scp_ret>>
    /\ UNCHANGED notScpVars

\* memcpy(buffer, *tmp_buffer, file_size);
ScpMemcpy ==
    /\ pc = "scp_memcpy"
    /\ copied' = file_size
    /\ pc' = "scp_close"
    /\ UNCHANGED <<rc, calls, scp, file_size, num_reads, slot, tmp_buffer, asked, scp_ret>>
    /\ UNCHANGED notScpVars

\* ssh_scp_close(scp);
ScpClose ==
    /\ pc = "scp_close"
    /\ calls' = Append(calls, Call("ssh_scp_close", 0))
    /\ pc' = "scp_free"
    /\ UNCHANGED <<rc, scp, file_size, num_reads, slot, tmp_buffer, asked, copied, scp_ret>>
    /\ UNCHANGED notScpVars

\* ssh_scp_free(scp);
ScpFree ==
    /\ pc = "scp_free"
    /\ calls' = Append(calls, Call("ssh_scp_free", 0))
    /\ pc' = "scp_return"
    /\ UNCHANGED <<rc, scp, file_size, num_reads, slot, tmp_buffer, asked, copied, scp_ret>>
    /\ UNCHANGED notScpVars

\* return rc;
ScpReturn ==
    /\ pc = "scp_return"
    /\ scp_ret' = rc
    /\ pc' = "scp_done"
    /\ UNCHANGED <<rc, calls, scp, file_size, num_reads, slot, tmp_buffer, asked, copied>>
    /\ UNCHANGED notScpVars

\* a read that wrote past the end of tmp_buffer may also end the process
ScpFault ==
    /\ pc = "scp_loop"
    /\ HighestScpWrite > num_reads * SCP_READ_SIZE
    /\ pc' = "scp_fault"
    /\ UNCHANGED <<rc, calls, scpVars, notScpVars>>

InitScp == ScpInit /\ ExecIdle /\ McaIdle /\ LaterIdle

NextScp ==
    \/ ScpNew
    \/ ScpInitCall
    \/ ScpPull
    \/ ScpSize
    \/ ScpAccept
    \/ ScpRead
    \/ ScpLoop
    \/ ScpMemcpy
    \/ ScpClose
    \/ ScpFree
    \/ ScpReturn
    \/ ScpFault

SpecScp == InitScp /\ [][NextScp]_vars

-----------------------------------------------------------------------------
(* Properties of ubnt_copy_config_to_buffer *)

ScpDone == pc = "scp_done"

\* a new file was offered: its size has been read
Offered == Called("ssh_scp_request_get_size")

\* an end-of-file response arrived inside the loop
EofInLoop ==
    LET pulls == ResultsOf("ssh_scp_pull_request")
    IN \E k \in 2..Len(pulls) : pulls[k] = SSH_SCP_REQUEST_EOF

\* ceil(S / C)
Ceil(S, C) == (S + C - 1) \div C

\* C11: for an offered file of advertised size S the read calls issued are
\* never more than ceil(S / 2048), and exactly that many once the function
\* has returned without an end-of-file response inside the loop.
C11_ReadCountIsCeiling ==
    Offered =>
        /\ Len(asked) <= Ceil(file_size, SCP_READ_SIZE)
        /\ (ScpDone /\ ~EofInLoop) => Len(asked) = Ceil(file_size, SCP_READ_SIZE)

\* C12: every read asks for at most SCP_READ_SIZE bytes, and what a read
\* delivered into its slot lies inside the slot and inside tmp_buffer.
C12_ReadsFitTheirSlot ==
    /\ \A k \in 1..Len(asked) : asked[k] <= SCP_READ_SIZE
    /\ \A n \in 1..Len(tmp_buffer) :
         /\ tmp_buffer[n].len <= SCP_READ_SIZE
         /\ tmp_buffer[n].at + tmp_buffer[n].len <= num_reads * SCP_READ_SIZE

\* bytes delivered by the first n chunks
PrefixSum(n) == SumLen(SubSeq(tmp_buffer, 1, n))

NoByte == <<0, 0>>

\* where the byte at offset p of tmp_buffer came from: <<n, k>> is byte k of
\* the n-th delivered chunk, NoByte a byte no read delivered
Origin(p) ==
    LET ws == {n \in 1..Len(tmp_buffer) :
                 /\ tmp_buffer[n].at <= p
                 /\ p < tmp_buffer[n].at + tmp_buffer[n].len}
    IN IF ws = {} THEN NoByte
       ELSE LET n == CHOOSE m \in ws : \A o \in ws : o <= m
            IN <<n, p - tmp_buffer[n].at>>

\* the byte at offset p of the caller's buffer after the memcpy
DestByte(p) ==
    IF 0 <= p /\ p < copied THEN Origin(p) ELSE NoByte

Min(a, b) == IF a < b THEN a ELSE b

\* every read call delivered a chunk of 1..2048 bytes and together they
\* delivered the whole file
WholeFileInChunks ==
    LET rs == ResultsOf("ssh_scp_read")
    IN /\ \A k \in 1..Len(rs) : 1 <= rs[k] /\ rs[k] <= SCP_READ_SIZE
       /\ TotalDelivered = file_size

\* C13: after a transfer whose reads delivered chunks of 1..2048 bytes (here:
\* the whole file), the caller's buffer starts with the chunks laid end to
\* end in read order (the first and last byte of every chunk lie where the
\* concatenation puts them) and min(S, bytes delivered) bytes were assembled.
C13_BufferIsConcatenation ==
    (ScpDone /\ copied >= 0 /\ WholeFileInChunks)
    => /\ copied = Min(file_size, TotalDelivered)
       /\ \A n \in 1..Len(tmp_buffer) :
            /\ DestByte(PrefixSum(n - 1)) = <<n, 0>>
            /\ DestByte(PrefixSum(n) - 1) = <<n, tmp_buffer[n].len - 1>>

IsTransferCall(c) ==
    c.f \in {"ssh_scp_pull_request", "ssh_scp_accept_request", "ssh_scp_read"}

\* C14: when ubnt_copy_config_to_buffer has returned, the transfer object
\* was closed once and then freed once, these are the last two calls made,
\* and so no pull request, accept or read follows the close.
C14_ClosedThenFreedOnce ==
    ScpDone =>
        /\ Len(calls) >= 2
        /\ calls[Len(calls) - 1].f = "ssh_scp_close"
        /\ calls[Len(calls)].f = "ssh_scp_free"
        /\ Len(ResultsOf("ssh_scp_close")) = 1
        /\ Len(ResultsOf("ssh_scp_free")) = 1
        /\ \A k \in 1..Len(calls) :
             calls[k].f = "ssh_scp_close" =>
                 \A m \in (k + 1)..Len(calls) : ~IsTransferCall(calls[m])

\* a transfer that read twice and was copied out
C14_Witness ==
    /\ ScpDone
    /\ Len(asked) >= 2
    /\ copied >= 0

\* C15: the function returns the bytes its reads delivered when a new file
\* was offered and read, and -1 on every other path.
C15_ReturnsBytesOrMinusOne ==
    ScpDone =>
        IF Offered THEN scp_ret = TotalDelivered ELSE scp_ret = -1

-----------------------------------------------------------------------------
(* ubnt_connect_key *)

SSH_AUTH_SUCCESS == 0

\* enum ssh_auth_e of libssh: SSH_AUTH_ERROR = -1, SSH_AUTH_SUCCESS = 0,
\* SSH_AUTH_DENIED = 1, SSH_AUTH_PARTIAL = 2
AuthResults == {SSH_ERROR} \cup 0..2

\* ssh_pki_import_pubkey_file, ssh_pki_import_privkey_file: SSH_EOF when the
\* file cannot be opened, SSH_ERROR when it cannot be parsed
ImportResults == {SSH_OK, SSH_ERROR, SSH_EOF}

ConnectResults == {SSH_OK, SSH_ERROR}

\* the steps of the login, as they appear in calls
KeySteps ==
    {"ssh_pki_import_pubkey_file", "ssh_connect", "ssh_userauth_try_publickey",
     "ssh_pki_import_privkey_file", "ssh_userauth_publickey"}

\* the call c reported a failure
StepFailed(c) ==
    /\ c.f \in KeySteps
    /\ c.r # 0

\* some call to f was made and failed
Failed(f) ==
    \E k \in 1..Len(calls) : calls[k].f = f /\ StepFailed(calls[k])

\* where control goes after ssh_pki_import_pubkey_file
AfterImportPub(g, r) ==
    IF g /\ r # SSH_OK THEN "key_free" ELSE "key_connect"

\* where control goes after ssh_connect
AfterConnect(g, r) ==
    IF g /\ r # SSH_OK THEN "key_free" ELSE "key_try"

\* where control goes after ssh_userauth_try_publickey
AfterTry(r) ==
    IF r = SSH_AUTH_SUCCESS THEN "key_import_priv" ELSE "key_free"

\* where control goes after ssh_pki_import_privkey_file
AfterImportPriv(g, r) ==
    IF g /\ r # SSH_OK THEN "key_free" ELSE "key_auth"

\* guarded = FALSE is the definition in ubnt.c, guarded = TRUE the one that
\* tests every rc
KeyInit ==
    /\ pc = "key_import_pub"
    /\ guarded \in BOOLEAN
    /\ rc = 0
    /\ calls = <<>>
    /\ key_ret = 0

\* publickey = ssh_key_new(); privatekey = ssh_key_new();
\* rc = ssh_pki_import_pubkey_file(publickey_file, &publickey);
KeyImportPub ==
    /\ pc = "key_import_pub"
    /\ rc' \in ImportResults
    /\ calls' = Append(calls, Call("ssh_pki_import_pubkey_file", rc'))
    /\ pc' = AfterImportPub(guarded, rc')
    /\ UNCHANGED <<guarded, key_ret>>
    /\ UNCHANGED notKeyVars

\* rc = ssh_connect(device->session);
KeyConnect ==
    /\ pc = "key_connect"
    /\ rc' \in ConnectResults
    /\ calls' = Append(calls, Call("ssh_connect", rc'))
    /\ pc' = AfterConnect(guarded, rc')
    /\ UNCHANGED <<guarded, key_ret>>
    /\ UNCHANGED notKeyVars

\* rc = ssh_userauth_try_publickey(device->session, NULL, publickey);
\* without a connection or without a key it can only fail
KeyTry ==
    /\ pc = "key_try"
    /\ rc' \in (IF Failed("ssh_pki_import_pubkey_file") \/ Failed("ssh_connect")
                THEN {SSH_ERROR} ELSE AuthResults)
    /\ calls' = Append(calls, Call("ssh_userauth_try_publickey", rc'))
    /\ pc' = AfterTry(rc')
    /\ UNCHANGED <<guarded, key_ret>>
    /\ UNCHANGED notKeyVars

\* rc = ssh_pki_import_privkey_file(privatekey_file, NULL, NULL, NULL,
\*                                  &privatekey);
KeyImportPriv ==
    /\ pc = "key_import_priv"
    /\ rc' \in ImportResults
    /\ calls' = Append(calls, Call("ssh_pki_import_privkey_file", rc'))
    /\ pc' = AfterImportPriv(guarded, rc')
    /\ UNCHANGED <<guarded, key_ret>>
    /\ UNCHANGED notKeyVars

\* rc = ssh_userauth_publickey(device->session, NULL, privatekey);
\* without a private key it can only fail
KeyAuth ==
    /\ pc = "key_auth"
    /\ rc' \in (IF Failed("ssh_pki_import_privkey_file")
                THEN {SSH_ERROR} ELSE AuthResults)
    /\ calls' = Append(calls, Call("ssh_userauth_publickey", rc'))
    /\ pc' = "key_free"
    /\ UNCHANGED <<guarded, key_ret>>
    /\ UNCHANGED notKeyVars

\* ssh_key_free(publickey);
KeyFreePublic ==
    /\ pc = "key_free"
    /\ calls' = Append(calls, Call("ssh_key_free", 0))
    /\ pc' = "key_free_private"
    /\ UNCHANGED <<guarded, rc, key_ret>>
    /\ UNCHANGED notKeyVars

\* ssh_key_free(privatekey);
KeyFreePrivate ==
    /\ pc = "key_free_private"
    /\ calls' = Append(calls, Call("ssh_key_free", 0))
    /\ pc' = "key_return"
    /\ UNCHANGED <<guarded, rc, key_ret>>
    /\ UNCHANGED notKeyVars

\* return rc;
KeyReturn ==
    /\ pc = "key_return"
    /\ key_ret' = rc
    /\ pc' = "key_done"
    /\ UNCHANGED <<guarded, rc, calls>>
    /\ UNCHANGED notKeyVars

InitKey == KeyInit /\ ExecOwnIdle /\ McaIdle /\ LaterIdle

NextKey ==
    \/ KeyImportPub
    \/ KeyConnect
    \/ KeyTry
    \/ KeyImportPriv
    \/ KeyAuth
    \/ KeyFreePublic
    \/ KeyFreePrivate
    \/ KeyReturn

SpecKey == InitKey /\ [][NextKey]_vars

-----------------------------------------------------------------------------
(* Properties of ubnt_connect_key *)

KeyDone == pc = "key_done"

\* the failing calls among the steps, in order
FailedSteps == SelectSeq(calls, StepFailed)

\* C16: in the definition of ubnt.c, a failed public-key import is followed
\* by no connect, a failed connect by no try-publickey, a failed private-key
\* import by no publickey authentication, and the code returned is that of
\* the first failing step.
C16_StepsAreGated ==
    ~guarded =>
        /\ Failed("ssh_pki_import_pubkey_file") => ~Called("ssh_connect")
        /\ Failed("ssh_connect") => ~Called("ssh_userauth_try_publickey")
        /\ Failed("ssh_pki_import_privkey_file") => ~Called("ssh_userauth_publickey")
        /\ (KeyDone /\ FailedSteps # <<>>) => key_ret = FailedSteps[1].r

-----------------------------------------------------------------------------
(* The session of a device: ubnt_init, ubnt_renew_session,                 *)
(* ubnt_connect_password, ubnt_disconnect, ubnt_is_connected               *)

MaxOps == 4

\* a handle is "idle" (allocated, no connection), "connected" or "freed"
Unreleased == {h \in 1..Len(handle) : handle[h] # "freed"}

\* device->session points into freed memory
Dangling == session > 0 /\ handle[session] = "freed"

\* ssh_is_connected(session): a freed handle may answer anything
Reports(h) ==
    IF handle[h] = "freed" THEN BOOLEAN ELSE {handle[h] = "connected"}

\* return !ssh_is_connected(device->session);
IsConnectedResult_plain(report) == IF report THEN 1 ELSE 0

IsConnectedResult(report) == IF report THEN 0 ELSE 1

\* the state ssh_connect leaves a handle in: connected when it succeeds;
\* when it fails, an established connection may or may not survive
AfterSshConnect(st, r) ==
    IF st = "freed" THEN {"freed"}
    ELSE IF r = SSH_OK THEN {"connected"}
    ELSE IF st = "connected" THEN {"idle", "connected"}
    ELSE {"idle"}

SessInit ==
    /\ pc = "sess_start"
    /\ rc = 0
    /\ SessIdle

\* device = malloc(...); device->session = ssh_new(); ssh_options_set x 3
UbntInit ==
    /\ pc = "sess_start"
    /\ handle' = Append(handle, "idle")
    /\ session' = Len(handle')
    /\ ops' = Append(ops, "ubnt_init")
    /\ pc' = "sess_ready"
    /\ UNCHANGED <<rc, reported, conn_ret>>
    /\ UNCHANGED notSessVars

\* device->session = ssh_new(); ssh_options_set x 3
UbntRenewSession ==
    /\ pc = "sess_ready"
    /\ Len(ops) <= MaxOps
    /\ handle' = Append(handle, "idle")
    /\ session' = Len(handle')
    /\ ops' = Append(ops, "ubnt_renew_session")
    /\ UNCHANGED <<pc, rc, reported, conn_ret>>
    /\ UNCHANGED notSessVars

\* rc = ssh_connect(device->session);
\* if (rc == SSH_OK) rc = ssh_userauth_password(...); return rc;
UbntConnectPassword ==
    /\ pc = "sess_ready"
    /\ Len(ops) <= MaxOps
    /\ \E c \in ConnectResults :
         /\ \E st \in AfterSshConnect(handle[session], c) :
              handle' = [handle EXCEPT ![session] = st]
         /\ rc' \in (IF c = SSH_OK THEN AuthResults ELSE {c})
    /\ ops' = Append(ops, "ubnt_connect_password")
    /\ UNCHANGED <<pc, session, reported, conn_ret>>
    /\ UNCHANGED notSessVars

\* ssh_disconnect(device->session); ssh_free(device->session);
UbntDisconnect ==
    /\ pc = "sess_ready"
    /\ Len(ops) <= MaxOps
    /\ handle' = [handle EXCEPT ![session] = "freed"]
    /\ ops' = Append(ops, "ubnt_disconnect")
    /\ UNCHANGED <<pc, rc, session, reported, conn_ret>>
    /\ UNCHANGED notSessVars

\* return !ssh_is_connected(device->session);
UbntIsConnected ==
    /\ pc = "sess_ready"
    /\ Len(ops) <= MaxOps
    /\ reported' \in Reports(session)
    /\ conn_ret' = IsConnectedResult(reported')
    /\ ops' = Append(ops, "ubnt_is_connected")
    /\ UNCHANGED <<pc, rc, session, handle>>
    /\ UNCHANGED notSessVars

\* the last call used a handle that an earlier ubnt_disconnect had freed
UsedFreedHandle ==
    /\ Dangling
    /\ \/ ops[Len(ops)] # "ubnt_disconnect"
       \/ Len(ops) >= 2 /\ ops[Len(ops) - 1] = "ubnt_disconnect"

\* a call that used a freed handle may also end the process
SessFault ==
    /\ pc = "sess_ready"
    /\ UsedFreedHandle
    /\ pc' = "sess_fault"
    /\ UNCHANGED <<rc, sessVars, notSessVars>>

InitSess == SessInit /\ ExecIdle /\ McaIdle /\ LaterIdle

NextSess ==
    \/ UbntInit
    \/ UbntRenewSession
    \/ UbntConnectPassword
    \/ UbntDisconnect
    \/ UbntIsConnected
    \/ SessFault

SpecSess == InitSess /\ [][NextSess]_vars

-----------------------------------------------------------------------------
(* Properties of the session functions *)

\* ubnt_is_connected was the last function called, and it returned
JustAsked ==
    /\ pc = "sess_ready"
    /\ ops # <<>>
    /\ ops[Len(ops)] = "ubnt_is_connected"

\* ... and the function called before it was ubnt_renew_session
AskedAfterRenew ==
    /\ JustAsked
    /\ Len(ops) >= 2
    /\ ops[Len(ops) - 1] = "ubnt_renew_session"

\* C17 as stated: ubnt_is_connected returns nonzero exactly when the
\* transport reports an active connection, and 0 right after
\* ubnt_renew_session.
C17_NonzeroIffConnected ==
    /\ JustAsked => (conn_ret # 0 <=> reported)
    /\ AskedAfterRenew => conn_ret = 0

\* C17: ubnt_is_connected returns 0 exactly when the transport reports an
\* active connection on the device's handle and 1 otherwise; right after
\* ubnt_renew_session it returns 1.
C17_ZeroIffConnected ==
    /\ JustAsked =>
         /\ conn_ret \in {0, 1}
         /\ conn_ret = 0 <=> reported
    /\ AskedAfterRenew => conn_ret = 1

\* asked on a connected handle, and asked right after a renewal
C17_Witness ==
    /\ JustAsked
    /\ ~Dangling
    /\ reported
    /\ \E k \in 1..Len(ops) - 2 :
         ops[k] = "ubnt_renew_session" /\ ops[k + 1] = "ubnt_is_connected"

\* ubnt_disconnect has been called at most once, as the last call
DisconnectOnlyLast ==
    \A k \in 1..Len(ops) - 1 : ops[k] # "ubnt_disconnect"

\* C18: over calls to ubnt_init, ubnt_connect_password, ubnt_renew_session
\* and one final ubnt_disconnect, at most one handle is allocated and not
\* released, and it is the one the device holds.
C18_AtMostOneHandle ==
    DisconnectOnlyLast =>
        /\ Cardinality(Unreleased) <= 1
        /\ \A h \in Unreleased : h = session

-----------------------------------------------------------------------------
(* rstrip, applied once and then again to its own result *)

MaxStrip == 3

StripChars == {"a", " ", "\n"}

RsInit ==
    /\ pc = "rs_start"
    /\ rs_in \in Strings(StripChars, 0, MaxStrip)
    /\ rs_once = <<>>
    /\ rs_twice = <<>>

\* rstrip(str);
RstripOnce ==
    /\ pc = "rs_start"
    /\ rs_once' \in RStrip(rs_in)
    /\ pc' = "rs_once"
    /\ UNCHANGED <<rs_in, rs_twice>>
    /\ UNCHANGED notRsVars

\* rstrip(str); once more
RstripTwice ==
    /\ pc = "rs_once"
    /\ rs_twice' \in RStrip(rs_once)
    /\ pc' = "rs_twice"
    /\ UNCHANGED <<rs_in, rs_once>>
    /\ UNCHANGED notRsVars

\* a scan that ran below the string may also end the process
RstripFault ==
    /\ \/ pc = "rs_once" /\ RStripUnderruns(rs_in)
       \/ pc = "rs_twice" /\ RStripUnderruns(rs_once)
    /\ pc' = "rs_fault"
    /\ UNCHANGED <<rsVars, notRsVars>>

InitRs ==
    /\ RsInit
    /\ ExecIdle /\ McaIdle /\ ScpIdle /\ KeyIdle /\ SessIdle /\ SizeIdle /\ DispIdle

NextRs ==
    \/ RstripOnce
    \/ RstripTwice
    \/ RstripFault

SpecRs == InitRs /\ [][NextRs]_vars

-----------------------------------------------------------------------------
(* Properties of rstrip *)

\* the longest prefix of s that does not end in a whitespace character
LongestPrefix(s) ==
    LET ends == {n \in 0..Len(s) : n = 0 \/ ~isspace(s[n])}
        n == CHOOSE m \in ends : \A o \in ends : o <= m
    IN SubSeq(s, 1, n)

\* C19: rstrip leaves the longest prefix of s that does not end in a
\* whitespace character, and a second rstrip changes nothing.
C19_LongestPrefixIdempotent ==
    /\ pc \in {"rs_once", "rs_twice"} => rs_once = LongestPrefix(rs_in)
    /\ pc = "rs_twice" => rs_twice = rs_once

\* the lowest index of s (counted from 0, as in C) that rstrip(s) reads: the
\* loop reads str[i - 1] until that is no whitespace; an empty s is not
\* scanned
LowestRead(s) ==
    IF Len(s) = 0 THEN 0 ELSE RStripScan(s, Len(s)) - 1

\* s is not empty and holds whitespace only
AllSpace(s) ==
    /\ Len(s) > 0
    /\ \A k \in 1..Len(s) : isspace(s[k])

\* C21: rstrip reads (and so writes) no index below 0, and a non-empty
\* string of whitespace only is left empty.
C21_NoIndexBelowZero ==
    pc \in {"rs_once", "rs_twice", "rs_fault"} =>
        /\ LowestRead(rs_in) >= 0
        /\ AllSpace(rs_in) => rs_once = <<>>

-----------------------------------------------------------------------------
(* ubnt_exec_command, the sizes only: how many bytes buffer has, how many  *)
(* bytes each poll announces and each read writes.  The channel is taken   *)
(* to be open; the contents of the bytes are left out; pc takes the        *)
(* positions it has in the model of the whole function.                    *)

MaxCycles == 2

\* int buffer_size = 8192;
buffer_size == 8192

\* the character '0', which calloc is given as the size of one element
ZeroChar == 48

\* calloc(buffer_size, '0') gives buffer_size elements of '0' bytes each
BufferBytes == buffer_size * ZeroChar

\* what ssh_channel_poll_timeout may announce: an error, nothing, or the
\* bytes waiting in the channel, which the buffer's size does not limit
PollSizes ==
    {SSH_EOF, SSH_ERROR, 0, 1, BufferBytes - 1, BufferBytes, BufferBytes + 1}

\* ssh_channel_read_timeout(channel, buffer, count, ...): an error, or
\* between 1 and count bytes written from buffer[0] on
ReadSizes(count) == {SSH_ERROR, 1, count}

Max(a, b) == IF a > b THEN a ELSE b

SizeInit ==
    /\ pc = "exec_alloc"
    /\ SizeIdle

\* buffer = (char *) calloc(buffer_size, '0');
SizeAlloc ==
    /\ pc = "exec_alloc"
    /\ capacity' = BufferBytes
    /\ hiwrite' = 0
    /\ pc' = "exec_check"
    /\ UNCHANGED <<nbytes, pbytes, cycles>>
    /\ UNCHANGED notSizeVars

\* while (ssh_channel_is_open(channel) && !ssh_channel_is_eof(channel))
SizeCheck ==
    /\ pc = "exec_check"
    /\ \E goon \in BOOLEAN :
         pc' = IF goon /\ cycles < MaxCycles THEN "exec_poll" ELSE "exec_rstrip"
    /\ UNCHANGED <<nbytes, pbytes, capacity, hiwrite, cycles>>
    /\ UNCHANGED notSizeVars

\* pbytes = ssh_channel_poll_timeout(channel, TIMEOUT, 0);
\* if (pbytes > 0) ... else break;
SizePoll ==
    /\ pc = "exec_poll"
    /\ pbytes' \in PollSizes
    /\ cycles' = cycles + 1
    /\ pc' = AfterPoll(pbytes')
    /\ UNCHANGED <<nbytes, capacity, hiwrite>>
    /\ UNCHANGED notSizeVars

\* nbytes += ssh_channel_read_timeout(channel, buffer, pbytes, 0, TIMEOUT);
SizeRead ==
    /\ pc = "exec_read"
    /\ capacity > 0
    /\ \E r \in ReadSizes(pbytes) :
         /\ nbytes' = nbytes + r
         /\ hiwrite' = IF r > 0 THEN Max(hiwrite, r) ELSE hiwrite
    /\ pc' = "exec_check"
    /\ UNCHANGED <<pbytes, capacity, cycles>>
    /\ UNCHANGED notSizeVars

\* rstrip(buffer): strlen runs to the first zero byte; calloc zeroed the
\* buffer, so one is left inside it exactly when not every byte was written
SizeRstrip ==
    /\ pc = "exec_rstrip"
    /\ capacity > 0
    /\ pc' = "size_done"
    /\ UNCHANGED <<nbytes, pbytes, capacity, hiwrite, cycles>>
    /\ UNCHANGED notSizeVars

\* a read that wrote past the end of buffer, or a scan that ran past it, may
\* also end the process
SizeFault ==
    /\ pc \in {"exec_check", "size_done"}
    /\ hiwrite >= capacity
    /\ pc' = "size_fault"
    /\ UNCHANGED <<nbytes, pbytes, sizeVars, notSizeVars>>

InitSize == SizeInit /\ ExecIdle /\ McaIdle /\ LaterIdle

NextSize ==
    \/ SizeAlloc
    \/ SizeCheck
    \/ SizePoll
    \/ SizeRead
    \/ SizeRstrip
    \/ SizeFault

SpecSize == InitSize /\ [][NextSize]_vars

-----------------------------------------------------------------------------
(* Properties of the sizes in ubnt_exec_command *)

\* C20: the read that follows a poll result p > 0 asks for no more bytes
\* than buffer has from the write position (buffer[0]) on, and after any
\* number of reads a zero byte is left inside buffer behind the data.
C20_ReadsInsideBuffer ==
    capacity > 0 =>
        /\ pc = "exec_read" => 0 + pbytes <= capacity
        /\ hiwrite < capacity

-----------------------------------------------------------------------------
(* ubnt_dispatch: ubnt_init, ubnt_connect_password, ubnt_exec_command,     *)
(* ubnt_disconnect and free, in one call.  device is "none" before         *)
(* ubnt_init, then "allocated" or "null" (malloc failed), and "freed"      *)
(* after free; ops lists the functions called, handle the transport        *)
(* handles.                                                                *)

\* what ubnt_exec_command may return: no buffer, or the command's output
ExecOutputs == {NULL} \cup Strings(DataChars, 0, MaxChunk)

\* where control goes after ubnt_init: the definition of ubnt.c goes on
\* whatever it returned, the older one tests device
AfterDispInit(g, dev) ==
    IF g /\ dev = "null" THEN "disp_return" ELSE "disp_connect"

\* if (rc == 0)
AfterDispConnect(r) ==
    IF r = 0 THEN "disp_exec" ELSE "disp_free"

\* guarded = FALSE is the definition in ubnt.c, guarded = TRUE the older one
DispStart ==
    /\ pc = "disp_init"
    /\ guarded \in BOOLEAN
    /\ rc = 0
    /\ calls = <<>>
    /\ DispIdle

\* device = ubnt_init(host, port, username);
DispUbntInit ==
    /\ pc = "disp_init"
    /\ \/ /\ device' = "allocated"
          /\ handle' = Append(handle, "idle")
          /\ session' = Len(handle')
       \/ /\ device' = "null"
          /\ UNCHANGED <<handle, session>>
    /\ ops' = Append(ops, "ubnt_init")
    /\ pc' = AfterDispInit(guarded, device')
    /\ UNCHANGED <<guarded, rc, output>>
    /\ UNCHANGED notDispVars

\* rc = ubnt_connect_password(device, password), its first half:
\* rc = ssh_connect(device->session); if (rc == SSH_OK) ... return rc;
DispSshConnect ==
    /\ pc = "disp_connect"
    /\ device = "allocated"
    /\ rc' \in ConnectResults
    /\ \E st \in AfterSshConnect(handle[session], rc') :
         handle' = [handle EXCEPT ![session] = st]
    /\ ops' = Append(ops, "ubnt_connect_password")
    /\ pc' = IF rc' = SSH_OK THEN "disp_auth" ELSE AfterDispConnect(rc')
    /\ UNCHANGED <<guarded, session, device, output>>
    /\ UNCHANGED notDispVars

\* its second half: rc = ssh_userauth_password(...); return rc;
DispUserauth ==
    /\ pc = "disp_auth"
    /\ rc' \in AuthResults
    /\ pc' = AfterDispConnect(rc')
    /\ UNCHANGED <<guarded, session, handle, ops, device, output>>
    /\ UNCHANGED notDispVars

\* output = ubnt_exec_command(device, command);
DispExec ==
    /\ pc = "disp_exec"
    /\ output' \in ExecOutputs
    /\ ops' = Append(ops, "ubnt_exec_command")
    /\ pc' = "disp_disconnect"
    /\ UNCHANGED <<guarded, rc, session, handle, device>>
    /\ UNCHANGED notDispVars

\* ubnt_disconnect(device), its first half: ssh_disconnect(device->session);
DispSshDisconnect ==
    /\ pc = "disp_disconnect"
    /\ handle' = [handle EXCEPT ![session] = "idle"]
    /\ ops' = Append(ops, "ubnt_disconnect")
    /\ pc' = "disp_ssh_free"
    /\ UNCHANGED <<guarded, rc, session, device, output>>
    /\ UNCHANGED notDispVars

\* its second half: ssh_free(device->session);
DispSshFree ==
    /\ pc = "disp_ssh_free"
    /\ handle' = [handle EXCEPT ![session] = "freed"]
    /\ pc' = "disp_free"
    /\ UNCHANGED <<guarded, rc, session, ops, device, output>>
    /\ UNCHANGED notDispVars

\* free(device);
DispFree ==
    /\ pc = "disp_free"
    /\ device' = "freed"
    /\ ops' = Append(ops, "free")
    /\ pc' = "disp_return"
    /\ UNCHANGED <<guarded, rc, session, handle, output>>
    /\ UNCHANGED notDispVars

\* return output;
DispReturn ==
    /\ pc = "disp_return"
    /\ pc' = "disp_done"
    /\ UNCHANGED <<guarded, rc, session, handle, ops, device, output>>
    /\ UNCHANGED notDispVars

\* ubnt_connect_password(NULL, password) reads device->session through a
\* null pointer
DispFault ==
    /\ pc = "disp_connect"
    /\ device = "null"
    /\ pc' = "disp_fault"
    /\ UNCHANGED <<guarded, rc, session, handle, ops, device, output>>
    /\ UNCHANGED notDispVars

InitDisp ==
    /\ DispStart
    /\ ExecOwnIdle /\ McaIdle /\ ScpIdle /\ KeyIdle /\ SessIdle /\ RsIdle /\ SizeIdle

NextDisp ==
    \/ DispUbntInit
    \/ DispSshConnect
    \/ DispUserauth
    \/ DispExec
    \/ DispSshDisconnect
    \/ DispSshFree
    \/ DispFree
    \/ DispReturn
    \/ DispFault

SpecDisp == InitDisp /\ [][NextDisp]_vars

-----------------------------------------------------------------------------
(* Properties of ubnt_dispatch *)

DispDone == pc = "disp_done"

\* the places of op in ops
OpsAt(op) == {k \in 1..Len(ops) : ops[k] = op}

\* ubnt_connect_password has returned
Connected == OpsAt("ubnt_connect_password") # {} /\ pc # "disp_auth"

\* the command runs only after ubnt_connect_password returned 0
RunsOnlyConnected ==
    OpsAt("ubnt_exec_command") # {} => Connected /\ rc = 0

\* ubnt_disconnect is called once, after the command, exactly when the
\* connect returned 0
DisconnectsIffConnected ==
    (DispDone /\ Connected) =>
        /\ Cardinality(OpsAt("ubnt_disconnect")) = (IF rc = 0 THEN 1 ELSE 0)
        /\ \A d \in OpsAt("ubnt_disconnect") :
             \E x \in OpsAt("ubnt_exec_command") : x < d

\* a failed connect or authentication returns null and runs nothing
FailureReturnsNull ==
    (DispDone /\ Connected /\ rc # 0) =>
        /\ output = NULL
        /\ OpsAt("ubnt_exec_command") = {}

\* the device structure is freed only after its handle was released
HandleReleasedFirst ==
    device = "freed" => Unreleased = {}

\* C22: ubnt_dispatch runs the command only after the connect returned 0,
\* disconnects once exactly in that case, returns null and runs nothing when
\* the connect or the authentication fails, and has released the handle of
\* ubnt_init whenever it frees the device structure.
C22_DispatchReleasesHandle ==
    /\ RunsOnlyConnected
    /\ DisconnectsIffConnected
    /\ FailureReturnsNull
    /\ HandleReleasedFirst

====
